---- MODULE Spec2Model ----
(***************************************************************************)
(* Model of the civic-weave batch jobs:                                    *)
(*   backend/jobs/notify_project_matches.py  (candidate notification job)  *)
(*   backend/jobs/calculate_matches.py       (match recompute job)         *)
(*                                                                         *)
(* The database is modelled as committed tables plus the pending writes of *)
(* the job's single psycopg2 connection (one open transaction, no          *)
(* autocommit).  A statement that fails on the server puts the transaction *)
(* in the aborted state: every later statement fails until the transaction *)
(* ends, and commit() of an aborted transaction discards its writes.  An   *)
(* exception raised on the client side (before the statement reaches the   *)
(* server) leaves the transaction as it was.                               *)
(*                                                                         *)
(* Scores of the notification job are held in thousandths (600 = 0.6).     *)
(***************************************************************************)
EXTENDS Integers, Sequences, FiniteSets, Bags, TLC

VARIABLES
    \* ---- tables read by the notification job
    volunteer_project_matches, \* [project, volunteer] -> row or NoRow
    skills_visible,            \* volunteers.skills_visible
    \* ---- configuration read from the environment when the module loads
    TOP_K_CANDIDATES,
    MIN_MATCH_SCORE,
    \* ---- committed tables written by the notification job
    candidate_notifications,   \* the dedup ledger (set of rows)
    project_messages,          \* bag of messages
    \* ---- the open transaction of the job's connection
    tx_notifications,
    tx_messages,
    tx_aborted,
    \* ---- control state of notify_project_matches.main
    pc,
    batch_id,
    used_batches,
    projects,                  \* result of get_recruiting_projects
    proj_idx,
    candidates,                \* result of get_top_candidates
    cand_idx,
    notified,                  \* volunteers reported notified (line 174) for
                               \* the current project
    summary_error,             \* how the summary insert failed for the current
                               \* project: "none", "own" (it raised by itself)
                               \* or "aborted" (the transaction was aborted)
    exit_status,
    runs,
    failures,
    calls,                     \* SelSpec: the calls of get_top_candidates made
                               \* so far, each with its batch id and its result
    retries,                   \* SelSpec: record_notification calls repeated for a
                               \* triple already in the ledger
    \* ---- calculate_matches.py
    initiatives,               \* initiative -> [status, required_skills]
    volunteer_skills,          \* volunteer -> [skill -> weight or NoWeight]
    volunteer_initiative_matches, \* committed match table (bag of rows)
    rc_matches,                \* the local list `matches`
    rc_table,                  \* the table as seen inside the open transaction
    rc_pc,
    rc_success,                \* recalculate_all_matches returned in this run
    rc_commits,                \* runs of recalculate_all_matches that returned
    rc_failed_at,              \* the step of this run that raised, or "none"
    rc_exit,
    \* ---- the similarity functions of calculate_matches.py called on their own
    volunteer_weights,         \* the argument {skill_id: weight}
    project_skill_ids,         \* the argument list of required skill ids
    similarity                 \* the function called last and what it returned

nvars == <<volunteer_project_matches, skills_visible, TOP_K_CANDIDATES,
           MIN_MATCH_SCORE, calls, retries, candidate_notifications,
           project_messages, tx_notifications, tx_messages, tx_aborted, pc,
           batch_id, used_batches, projects, proj_idx, candidates, cand_idx,
           notified, summary_error, exit_status, runs, failures>>

\* nvars without the counters of runs and of injected failures
nvars_but_counters ==
    <<volunteer_project_matches, skills_visible, TOP_K_CANDIDATES,
      MIN_MATCH_SCORE, calls, retries, candidate_notifications,
      project_messages, tx_notifications, tx_messages, tx_aborted, pc,
      batch_id, used_batches, projects, proj_idx, candidates, cand_idx,
      notified, summary_error, exit_status>>

rvars == <<initiatives, volunteer_skills, volunteer_initiative_matches,
           rc_matches, rc_table, rc_pc, rc_success, rc_commits, rc_failed_at,
           rc_exit, volunteer_weights, project_skill_ids, similarity>>

vars == <<nvars, rvars>>

-----------------------------------------------------------------------------
(* Bounds of the model *)

MaxRuns == 2
MaxFailures == 1

\* volunteers.id
Volunteers == {1, 2, 3}
BatchIds == 1..MaxRuns

-----------------------------------------------------------------------------
(* Configuration, notify_project_matches.py lines 22-24 *)

\* The value of TOP_K_CANDIDATES the job runs with (the environment sets
\* it; the default of line 22 is 10)
JobTopK == 2
\* The default of MIN_MATCH_SCORE, 0.6, in thousandths (line 23)
DefaultMinScore == 600
\* The values get_top_candidates is called with on its own
MaxTopK == 3
Thresholds == {500, 600, 900}
MaxCalls == 2
MaxRetries == 1

-----------------------------------------------------------------------------
(* The projects table: id -> (status, team_lead_id, created_by_admin_id).   *)
(* 0 stands for NULL.  Ids are listed newest first (created_at DESC).       *)

ProjectRows ==
    << [id |-> 1, status |-> "recruiting", team_lead_id |-> 11, created_by_admin_id |-> 21],
       [id |-> 2, status |-> "active",     team_lead_id |-> 0,  created_by_admin_id |-> 22],
       [id |-> 3, status |-> "completed",  team_lead_id |-> 13, created_by_admin_id |-> 23] >>

Projects == {ProjectRows[i].id : i \in 1..Len(ProjectRows)}

RECURSIVE SelectSeq2(_, _)
\* The subsequence of s whose elements have a status in `keep`
SelectSeq2(s, keep) ==
    IF s = <<>> THEN <<>>
    ELSE IF Head(s).status \in keep
         THEN <<Head(s)>> \o SelectSeq2(Tail(s), keep)
         ELSE SelectSeq2(Tail(s), keep)

get_recruiting_projects == SelectSeq2(ProjectRows, {"recruiting", "active"})

-----------------------------------------------------------------------------
(* volunteer_project_matches rows *)

NoRow == [match_score |-> -1, matched_skill_count |-> 0]

\* The rows a volunteer can have for project 1
MatchRowChoices ==
    { [match_score |-> 500, matched_skill_count |-> 2],
      [match_score |-> 600, matched_skill_count |-> 1],
      [match_score |-> 900, matched_skill_count |-> 1],
      [match_score |-> 900, matched_skill_count |-> 2] }

\* The rows of projects 2 and 3 (a volunteer beyond the third has none)
Project2Matches ==
    [v \in Volunteers |->
        IF v = 2 THEN [match_score |-> 667, matched_skill_count |-> 1]
        ELSE IF v = 3 THEN [match_score |-> 500, matched_skill_count |-> 2]
        ELSE NoRow]

Project3Matches ==
    [v \in Volunteers |->
        IF v = 1 THEN [match_score |-> 900, matched_skill_count |-> 2] ELSE NoRow]

HasRow(tbl, p, v) == tbl[p][v] # NoRow

-----------------------------------------------------------------------------
(* get_top_candidates, lines 50-77 *)

\* The WHERE clause without its NOT EXISTS condition
Eligible_NoDedup(tbl, vis, ledger, p, min_score, b) ==
    { v \in Volunteers :
        /\ tbl[p][v].match_score # -1
        /\ tbl[p][v].match_score >= min_score
        /\ vis[v] = TRUE }

\* The WHERE clause with a NOT EXISTS that leaves out the batch id
Eligible_AnyBatch(tbl, vis, ledger, p, min_score, b) ==
    { v \in Volunteers :
        /\ tbl[p][v].match_score # -1
        /\ tbl[p][v].match_score >= min_score
        /\ vis[v] = TRUE
        /\ ~ \E cn \in ledger : /\ cn.project_id = p
                                /\ cn.volunteer_id = v }

\* The WHERE clause: rows of project p joined with volunteers, at or above
\* min_score, visible, with no ledger row for (p, v, b).
Eligible(tbl, vis, ledger, p, min_score, b) ==
    { v \in Volunteers :
        /\ HasRow(tbl, p, v)
        /\ tbl[p][v].match_score >= min_score
        /\ vis[v] = TRUE
        /\ ~ \E cn \in ledger : /\ cn.project_id = p
                                /\ cn.volunteer_id = v
                                /\ cn.notification_batch_id = b }

\* ORDER BY m.match_score DESC alone
SortsBefore_ScoreOnly(x, y) == x.match_score > y.match_score

\* ORDER BY m.match_score DESC, m.matched_skill_count DESC: x sorts strictly
\* before y
SortsBefore(x, y) ==
    \/ x.match_score > y.match_score
    \/ /\ x.match_score = y.match_score
       /\ x.matched_skill_count > y.matched_skill_count

\* Every ordering of the set S the ORDER BY can produce (rows that compare
\* equal come in any order).
Orderings(tbl, p, S) ==
    { s \in [1..Cardinality(S) -> S] :
        /\ \A i, j \in DOMAIN s : i # j => s[i] # s[j]
        /\ \A i, j \in DOMAIN s :
              i < j => ~ SortsBefore(tbl[p][s[j]], tbl[p][s[i]]) }

Min(a, b) == IF a <= b THEN a ELSE b

\* LIMIT top_k, and the projection to (volunteer_id, match_score)
get_top_candidates(tbl, vis, ledger, p, top_k, min_score, b) ==
    LET E == Eligible(tbl, vis, ledger, p, min_score, b)
    IN { [i \in 1..Min(top_k, Cardinality(E)) |->
             [volunteer_id |-> s[i], match_score |-> tbl[p][s[i]].match_score]] :
         s \in Orderings(tbl, p, E) }

-----------------------------------------------------------------------------
(* Messages.  A row of project_messages; recipient, batch and the list of   *)
(* (volunteer, percentage) entries stand for the message text and for the   *)
(* candidate the message was generated for.                                 *)

\* int(match_score * 100), lines 85 and 107
Pct(score) == (score * 100) \div 1000

\* A row of project_messages.  The INSERT of lines 91-96 stores the project,
\* the sender and the text; `recipient` and `batch` record the arguments of
\* the call that wrote the row, and `body` the percentages of the text.
CandidateMessage(p, c, b) ==
    [kind |-> "candidate", project_id |-> p, recipient |-> c.volunteer_id,
     batch |-> b,
     body |-> << [volunteer_id |-> c.volunteer_id, pct |-> Pct(c.match_score)] >>]

SummaryMessage(p, recipient, cands, b) ==
    [kind |-> "summary", project_id |-> p, recipient |-> recipient,
     batch |-> b,
     body |-> [i \in 1..Len(cands) |->
                 [volunteer_id |-> cands[i].volunteer_id,
                  pct |-> Pct(cands[i].match_score)]]]

\* send_candidate_notification, lines 80-96: INSERT INTO project_messages
send_candidate_notification(msgs, p, c, b) ==
    msgs (+) SetToBag({CandidateMessage(p, c, b)})

\* send_team_lead_notification, lines 99-126
send_team_lead_notification(msgs, p, recipient, cands, b) ==
    IF cands = <<>> THEN msgs
    ELSE msgs (+) SetToBag({SummaryMessage(p, recipient, cands, b)})

\* An insert that overwrites the row of a triple already present
record_notification_Upsert(ledger, p, v, score, b) ==
    { cn \in ledger : ~ (/\ cn.project_id = p
                         /\ cn.volunteer_id = v
                         /\ cn.notification_batch_id = b) }
    \cup { [project_id |-> p, volunteer_id |-> v,
            match_score |-> score, notification_batch_id |-> b] }

\* record_notification, lines 129-139:
\* INSERT ... ON CONFLICT (project_id, volunteer_id, notification_batch_id) DO NOTHING
record_notification(ledger, p, v, score, b) ==
    IF \E cn \in ledger : /\ cn.project_id = p
                          /\ cn.volunteer_id = v
                          /\ cn.notification_batch_id = b
    THEN ledger
    ELSE ledger \cup { [project_id |-> p, volunteer_id |-> v,
                        match_score |-> score, notification_batch_id |-> b] }

\* What a statement of the open transaction reads
LedgerView == candidate_notifications \cup tx_notifications

-----------------------------------------------------------------------------
(* notify_project_matches.py: main and process_project_notifications *)

CurrentProject == projects[proj_idx]

\* The for loop of line 157: the next iteration, or the code after the loop
LoopPc(idx) == IF idx <= Len(projects) THEN "select" ELSE "stats"

\* An exception that leaves process_project_notifications: lines 254-261,
\* sys.exit(1) and conn.close(), which discards the open transaction.
Fatal ==
    /\ pc' = "done"
    /\ candidates' = <<>>
    /\ cand_idx' = 1
    /\ notified' = {}
    /\ summary_error' = "none"
    /\ exit_status' = 1
    /\ tx_notifications' = {}
    /\ tx_messages' = EmptyBag
    /\ tx_aborted' = FALSE

\* A statement failed on the server: the transaction is aborted, its writes
\* will never be committed.
Abort ==
    /\ tx_aborted' = TRUE
    /\ tx_notifications' = {}
    /\ tx_messages' = EmptyBag

NotifyStatic == <<volunteer_project_matches, skills_visible, TOP_K_CANDIDATES,
                  MIN_MATCH_SCORE, calls, retries>>

\* main, lines 230-244, with a batch id minted by uuid.uuid4(), and
\* process_project_notifications up to the loop, lines 144-155
MainStart ==
    /\ pc \in {"idle", "done"}
    /\ runs < MaxRuns
    /\ \E b \in BatchIds :
          /\ b \notin used_batches
          /\ \A b2 \in BatchIds : b2 < b => b2 \in used_batches
          /\ batch_id' = b
          /\ used_batches' = used_batches \cup {b}
    /\ runs' = runs + 1
    /\ projects' = get_recruiting_projects
    /\ proj_idx' = 1
    /\ pc' = IF get_recruiting_projects = <<>> THEN "stats" ELSE "select"
    /\ exit_status' = -1
    /\ candidates' = <<>>
    /\ cand_idx' = 1
    /\ notified' = {}
    /\ summary_error' = "none"
    /\ UNCHANGED <<NotifyStatic, candidate_notifications, project_messages,
                   tx_notifications, tx_messages, tx_aborted, failures, rvars>>

\* process_project_notifications(conn, batch_id) called again with the batch
\* id of an earlier run, lines 142-155
RerunStart ==
    /\ pc \in {"idle", "done"}
    /\ runs < MaxRuns
    /\ \E b \in used_batches : batch_id' = b
    /\ runs' = runs + 1
    /\ projects' = get_recruiting_projects
    /\ proj_idx' = 1
    /\ pc' = IF get_recruiting_projects = <<>> THEN "stats" ELSE "select"
    /\ exit_status' = -1
    /\ candidates' = <<>>
    /\ cand_idx' = 1
    /\ notified' = {}
    /\ summary_error' = "none"
    /\ UNCHANGED <<NotifyStatic, candidate_notifications, project_messages,
                   tx_notifications, tx_messages, tx_aborted, used_batches,
                   failures, rvars>>

\* Lines 157-167: get_top_candidates returns; an empty result skips the project
SelectCandidates ==
    /\ pc = "select"
    /\ \E res \in get_top_candidates(volunteer_project_matches, skills_visible,
                                     LedgerView, CurrentProject.id,
                                     TOP_K_CANDIDATES, MIN_MATCH_SCORE, batch_id) :
          /\ candidates' = res
          /\ IF res = <<>>
             THEN /\ proj_idx' = proj_idx + 1
                  /\ pc' = LoopPc(proj_idx + 1)
             ELSE /\ proj_idx' = proj_idx
                  /\ pc' = "candidate"
    /\ cand_idx' = 1
    /\ notified' = {}
    /\ summary_error' = "none"
    /\ UNCHANGED <<NotifyStatic, candidate_notifications, project_messages,
                   tx_notifications, tx_messages, tx_aborted, batch_id,
                   used_batches, projects, exit_status, runs, failures, rvars>>

\* Line 161 raises: nothing catches it inside process_project_notifications
SelectFails ==
    /\ pc = "select"
    /\ failures < MaxFailures
    /\ failures' = failures + 1
    /\ Fatal
    /\ UNCHANGED <<NotifyStatic, candidate_notifications, project_messages,
                   batch_id, used_batches, projects, proj_idx, runs, rvars>>

\* The end of one iteration of the loop of line 170
NextCandidate ==
    /\ cand_idx' = cand_idx + 1
    /\ pc' = IF cand_idx + 1 <= Len(candidates) THEN "candidate" ELSE "team_lead"

CandidateFrame == <<NotifyStatic, candidate_notifications, project_messages,
                    summary_error,
                    batch_id, used_batches, projects, proj_idx, candidates,
                    exit_status, runs, rvars>>

\* Lines 170-175 on a connection in autocommit mode: each insert is committed
\* as it is executed
NotifyCandidate_Autocommit ==
    /\ pc = "candidate"
    /\ ~ tx_aborted
    /\ LET c == candidates[cand_idx]
       IN /\ project_messages' = send_candidate_notification(project_messages,
                                     CurrentProject.id, c, batch_id)
          /\ candidate_notifications' =
                record_notification(candidate_notifications, CurrentProject.id,
                                    c.volunteer_id, c.match_score, batch_id)
    /\ notified' = notified \cup {candidates[cand_idx].volunteer_id}
    /\ NextCandidate
    /\ UNCHANGED <<tx_aborted, tx_messages, tx_notifications, failures,
                   NotifyStatic, summary_error, batch_id, used_batches,
                   projects, proj_idx, candidates, exit_status, runs, rvars>>

\* Lines 170-175: both statements of the try block succeed
NotifyCandidate ==
    /\ pc = "candidate"
    /\ ~ tx_aborted
    /\ LET c == candidates[cand_idx]
       IN /\ tx_messages' = send_candidate_notification(tx_messages,
                                CurrentProject.id, c, batch_id)
          /\ tx_notifications' =
                record_notification(LedgerView, CurrentProject.id,
                                    c.volunteer_id, c.match_score, batch_id)
                \ candidate_notifications
    /\ notified' = notified \cup {candidates[cand_idx].volunteer_id}
    /\ NextCandidate
    /\ UNCHANGED <<tx_aborted, failures, CandidateFrame>>

\* Lines 172, 176-178: send_candidate_notification raises.  In an aborted
\* transaction every statement raises.
SendFails ==
    /\ pc = "candidate"
    /\ \/ /\ tx_aborted
          /\ UNCHANGED <<tx_aborted, tx_messages, tx_notifications, failures>>
       \/ /\ ~ tx_aborted
          /\ failures < MaxFailures
          /\ failures' = failures + 1
          /\ \/ UNCHANGED <<tx_aborted, tx_messages, tx_notifications>>
             \/ Abort
    /\ NextCandidate
    /\ UNCHANGED <<notified, CandidateFrame>>

\* Lines 173, 176-178: the message is inserted, then record_notification raises
RecordFails ==
    /\ pc = "candidate"
    /\ ~ tx_aborted
    /\ failures < MaxFailures
    /\ failures' = failures + 1
    /\ \/ /\ tx_messages' = send_candidate_notification(tx_messages,
                                CurrentProject.id, candidates[cand_idx], batch_id)
          /\ UNCHANGED <<tx_aborted, tx_notifications>>
       \/ Abort
    /\ NextCandidate
    /\ UNCHANGED <<notified, CandidateFrame>>

\* Line 181
Recipient(row) ==
    IF row.team_lead_id # 0 THEN row.team_lead_id ELSE row.created_by_admin_id

TeamLeadFrame == <<NotifyStatic, candidate_notifications, project_messages,
                   summary_error,
                   tx_notifications, batch_id, used_batches, projects, proj_idx,
                   candidates, cand_idx, notified, exit_status, runs, rvars>>

\* Lines 181-186: the summary is inserted (or there is nobody to send it to)
NotifyTeamLead ==
    /\ pc = "team_lead"
    /\ LET r == Recipient(CurrentProject)
       IN IF r # 0
          THEN /\ ~ tx_aborted
               /\ tx_messages' = send_team_lead_notification(tx_messages,
                                    CurrentProject.id, r, candidates, batch_id)
          ELSE UNCHANGED tx_messages
    /\ pc' = "commit"
    /\ UNCHANGED <<tx_aborted, failures, TeamLeadFrame>>

\* Lines 184, 187-188: send_team_lead_notification raises, and is caught
TeamLeadFails ==
    /\ pc = "team_lead"
    /\ Recipient(CurrentProject) # 0
    /\ \/ /\ tx_aborted
          /\ summary_error' = "aborted"
          /\ UNCHANGED <<tx_aborted, tx_messages, tx_notifications, failures>>
       \/ /\ ~ tx_aborted
          /\ summary_error' = "own"
          /\ failures < MaxFailures
          /\ failures' = failures + 1
          /\ \/ UNCHANGED <<tx_aborted, tx_messages, tx_notifications>>
             \/ Abort
    /\ pc' = "commit"
    /\ UNCHANGED <<NotifyStatic, candidate_notifications, project_messages,
                   batch_id, used_batches, projects, proj_idx, candidates,
                   cand_idx, notified, exit_status, runs, rvars>>

\* Line 190: conn.commit().  An aborted transaction ends without its writes.
CommitProject ==
    /\ pc = "commit"
    /\ candidate_notifications' = candidate_notifications \cup tx_notifications
    /\ project_messages' = project_messages (+) tx_messages
    /\ tx_notifications' = {}
    /\ tx_messages' = EmptyBag
    /\ tx_aborted' = FALSE
    /\ proj_idx' = proj_idx + 1
    /\ pc' = LoopPc(proj_idx + 1)
    /\ UNCHANGED <<NotifyStatic, batch_id, used_batches, projects, candidates,
                   cand_idx, notified, summary_error, exit_status, runs,
                   failures, rvars>>

\* Line 190 raises (the connection is lost): nothing catches it inside
\* process_project_notifications
CommitFails ==
    /\ pc = "commit"
    /\ failures < MaxFailures
    /\ failures' = failures + 1
    /\ Fatal
    /\ UNCHANGED <<NotifyStatic, candidate_notifications, project_messages,
                   batch_id, used_batches, projects, proj_idx, runs, rvars>>

StatsFrame == <<NotifyStatic, candidate_notifications, project_messages,
                tx_notifications, tx_messages, tx_aborted, batch_id,
                used_batches, projects, proj_idx, runs, rvars>>

\* Lines 246-252 and 259-261: statistics printed, job ends successfully
NotifyStatistics ==
    /\ pc = "stats"
    /\ pc' = "done"
    /\ exit_status' = 0
    /\ candidates' = <<>>
    /\ cand_idx' = 1
    /\ notified' = {}
    /\ summary_error' = "none"
    /\ UNCHANGED <<failures, StatsFrame>>

\* Lines 247-252: get_notification_statistics raises and is caught
NotifyStatisticsFails ==
    /\ pc = "stats"
    /\ failures < MaxFailures
    /\ failures' = failures + 1
    /\ pc' = "done"
    /\ exit_status' = 0
    /\ candidates' = <<>>
    /\ cand_idx' = 1
    /\ notified' = {}
    /\ summary_error' = "none"
    /\ UNCHANGED StatsFrame

-----------------------------------------------------------------------------
(* The notification job *)

\* No similarity function has been called on its own
SimilarityIdle ==
    /\ volunteer_weights = <<>>
    /\ project_skill_ids = <<>>
    /\ similarity = [function |-> "none"]

RecomputeIdle ==
    /\ initiatives = <<>>
    /\ volunteer_skills = <<>>
    /\ volunteer_initiative_matches = EmptyBag
    /\ rc_matches = {}
    /\ rc_table = EmptyBag
    /\ rc_pc = "idle"
    /\ rc_success = FALSE
    /\ rc_commits = 0
    /\ rc_failed_at = "none"
    /\ rc_exit = -1
    /\ SimilarityIdle

Init ==
    /\ \E t \in [Volunteers -> MatchRowChoices] :
          volunteer_project_matches =
             [p \in Projects |-> IF p = 1 THEN t
                                 ELSE IF p = 2 THEN Project2Matches
                                 ELSE Project3Matches]
    \* volunteer 1 is the one whose skills may be hidden
    /\ \E hidden \in BOOLEAN :
          skills_visible = [v \in Volunteers |-> ~ (v = 1 /\ hidden)]
    /\ candidate_notifications = {}
    /\ project_messages = EmptyBag
    /\ tx_notifications = {}
    /\ tx_messages = EmptyBag
    /\ tx_aborted = FALSE
    /\ TOP_K_CANDIDATES = JobTopK
    /\ MIN_MATCH_SCORE = DefaultMinScore
    /\ calls = <<>>
    /\ retries = 0
    /\ pc = "idle"
    /\ batch_id = 0
    /\ used_batches = {}
    /\ projects = <<>>
    /\ proj_idx = 1
    /\ candidates = <<>>
    /\ cand_idx = 1
    /\ notified = {}
    /\ summary_error = "none"
    /\ exit_status = -1
    /\ runs = 0
    /\ failures = 0
    /\ RecomputeIdle

Next ==
    \/ MainStart
    \/ RerunStart
    \/ SelectCandidates
    \/ SelectFails
    \/ NotifyCandidate
    \/ SendFails
    \/ RecordFails
    \/ NotifyTeamLead
    \/ TeamLeadFails
    \/ CommitProject
    \/ CommitFails
    \/ NotifyStatistics
    \/ NotifyStatisticsFails

Spec == Init /\ [][Next]_vars

-----------------------------------------------------------------------------
(* Candidate selection and the dedup ledger on their own: get_top_candidates *)
(* called for project 1 with any K, threshold and batch id, a                *)
(* NotificationRecord committed for every returned candidate before the next *)
(* call, and record_notification repeated for a recorded candidate.          *)

SelFrame == <<volunteer_project_matches, skills_visible, TOP_K_CANDIDATES,
              MIN_MATCH_SCORE, project_messages, tx_notifications, tx_messages,
              tx_aborted, used_batches, projects, proj_idx, notified,
              summary_error, exit_status, runs, failures, rvars>>

SelInit ==
    /\ \E t \in [Volunteers -> MatchRowChoices \cup {NoRow}] :
          volunteer_project_matches =
             [p \in Projects |-> IF p = 1 THEN t
                                 ELSE IF p = 2 THEN Project2Matches
                                 ELSE Project3Matches]
    /\ \E hidden \in BOOLEAN :
          skills_visible = [v \in Volunteers |-> ~ (v = 1 /\ hidden)]
    /\ TOP_K_CANDIDATES \in 1..MaxTopK
    /\ MIN_MATCH_SCORE \in Thresholds
    /\ candidate_notifications = {}
    /\ project_messages = EmptyBag
    /\ tx_notifications = {}
    /\ tx_messages = EmptyBag
    /\ tx_aborted = FALSE
    /\ calls = <<>>
    /\ retries = 0
    /\ pc = "sel_idle"
    /\ batch_id = 0
    /\ used_batches = {}
    /\ projects = <<>>
    /\ proj_idx = 1
    /\ candidates = <<>>
    /\ cand_idx = 1
    /\ notified = {}
    /\ summary_error = "none"
    /\ exit_status = -1
    /\ runs = 0
    /\ failures = 0
    /\ RecomputeIdle

\* get_top_candidates(cursor, 1, TOP_K_CANDIDATES, MIN_MATCH_SCORE, b), lines 50-77
SelCall ==
    /\ pc = "sel_idle"
    /\ Len(calls) < MaxCalls
    /\ \E b \in BatchIds :
       \E res \in get_top_candidates(volunteer_project_matches, skills_visible,
                                     candidate_notifications, 1,
                                     TOP_K_CANDIDATES, MIN_MATCH_SCORE, b) :
          /\ batch_id' = b
          /\ candidates' = res
          /\ calls' = Append(calls, [batch |-> b, result |-> res])
          /\ pc' = IF res = <<>> THEN "sel_idle" ELSE "sel_record"
    /\ cand_idx' = 1
    /\ UNCHANGED <<candidate_notifications, retries, SelFrame>>

\* record_notification for the next returned candidate, lines 129-139, committed
SelRecord ==
    /\ pc = "sel_record"
    /\ LET c == candidates[cand_idx]
       IN candidate_notifications' =
             record_notification(candidate_notifications, 1, c.volunteer_id,
                                 c.match_score, batch_id)
    /\ cand_idx' = cand_idx + 1
    /\ pc' = IF cand_idx + 1 <= Len(candidates) THEN "sel_record" ELSE "sel_idle"
    /\ UNCHANGED <<batch_id, candidates, calls, retries, SelFrame>>

\* record_notification called again for a triple of the ledger, with the
\* score the caller then holds
SelRetry ==
    /\ pc = "sel_idle"
    /\ retries < MaxRetries
    /\ \E cn \in candidate_notifications :
       \E score \in Thresholds :
          candidate_notifications' =
             record_notification(candidate_notifications, cn.project_id,
                                 cn.volunteer_id, score, cn.notification_batch_id)
    /\ retries' = retries + 1
    /\ UNCHANGED <<pc, batch_id, candidates, cand_idx, calls, SelFrame>>

SelNext ==
    \/ SelCall
    \/ SelRecord
    \/ SelRetry

SelSpec == SelInit /\ [][SelNext]_vars

-----------------------------------------------------------------------------
(* Properties of candidate selection and of the ledger (SelSpec) *)

VolunteersOf(res) == { res[i].volunteer_id : i \in DOMAIN res }

\* v has a ledger row for (p, v, b)
Recorded(ledger, p, v, b) ==
    \E cn \in ledger : /\ cn.project_id = p
                       /\ cn.volunteer_id = v
                       /\ cn.notification_batch_id = b

\* v passes the three filters of selection for project p and batch b
Qualifies(ledger, p, v, min_score, b) ==
    /\ volunteer_project_matches[p][v] # NoRow
    /\ volunteer_project_matches[p][v].match_score >= min_score
    /\ skills_visible[v]
    /\ ~ Recorded(ledger, p, v, b)

\* u ranks strictly above v for project p: higher score, or equal score and
\* more matched skills
Outranks(p, u, v) ==
    LET x == volunteer_project_matches[p][u]
        y == volunteer_project_matches[p][v]
    IN \/ x.match_score > y.match_score
       \/ x.match_score = y.match_score /\ x.matched_skill_count > y.matched_skill_count

\* The call just returned: the ledger is still the one the call read
FreshCall == pc = "sel_record" /\ cand_idx = 1

\* C2: for a fixed project and batch id, a call of get_top_candidates made
\* after a NotificationRecord was committed for every candidate of an earlier
\* call returns no volunteer of that earlier call.
C2_SecondCallDisjoint ==
    \A i, j \in DOMAIN calls :
        (i < j /\ calls[i].batch = calls[j].batch)
            => VolunteersOf(calls[i].result) \cap VolunteersOf(calls[j].result) = {}

\* Two calls with the same batch id, both returning candidates
C2_Witness ==
    /\ Len(calls) = 2
    /\ calls[1].batch = calls[2].batch
    /\ calls[1].result # <<>>
    /\ calls[2].result # <<>>
    /\ pc = "sel_record"

\* C3: the result of get_top_candidates for a batch does not depend on the
\* ledger rows of other batches, and a volunteer recorded in another batch is
\* returned for this batch when it passes the filters and fewer than K
\* qualifying volunteers rank at or above it.
C3_NewBatchResetsEligibility ==
    /\ \A p \in Projects, b \in BatchIds :
          get_top_candidates(volunteer_project_matches, skills_visible,
                             candidate_notifications, p, TOP_K_CANDIDATES,
                             MIN_MATCH_SCORE, b)
          = get_top_candidates(volunteer_project_matches, skills_visible,
                               { cn \in candidate_notifications :
                                    cn.notification_batch_id = b },
                               p, TOP_K_CANDIDATES, MIN_MATCH_SCORE, b)
    /\ FreshCall =>
          \A v \in Volunteers :
             ( /\ \E b1 \in BatchIds \ {batch_id} :
                     Recorded(candidate_notifications, 1, v, b1)
               /\ Qualifies(candidate_notifications, 1, v, MIN_MATCH_SCORE, batch_id)
               /\ Cardinality({ u \in Volunteers \ {v} :
                     /\ Qualifies(candidate_notifications, 1, u,
                                  MIN_MATCH_SCORE, batch_id)
                     /\ ~ Outranks(1, v, u) }) < TOP_K_CANDIDATES )
             => v \in VolunteersOf(candidates)

\* A volunteer recorded in one batch is returned by a call for another batch
C3_Witness ==
    /\ FreshCall
    /\ \E v \in VolunteersOf(candidates) :
       \E b1 \in BatchIds \ {batch_id} :
          Recorded(candidate_notifications, 1, v, b1)

\* What C4 says of one result of get_top_candidates(p, k, min_score, b)
TopKContract(res, ledger, p, k, min_score, b) ==
    /\ Len(res) <= k
    /\ \A i, j \in DOMAIN res : i # j => res[i].volunteer_id # res[j].volunteer_id
    /\ \A i \in DOMAIN res :
          /\ Qualifies(ledger, p, res[i].volunteer_id, min_score, b)
          /\ res[i].match_score =
                volunteer_project_matches[p][res[i].volunteer_id].match_score
          /\ res[i].match_score >= min_score
    /\ \A i, j \in DOMAIN res :
          i < j => ~ Outranks(p, res[j].volunteer_id, res[i].volunteer_id)
    /\ \A u \in Volunteers \ VolunteersOf(res) :
          Qualifies(ledger, p, u, min_score, b)
             => \A i \in DOMAIN res : ~ Outranks(p, u, res[i].volunteer_id)

\* C4: get_top_candidates returns at most K volunteers, each at or above the
\* threshold, visible and without a ledger row for the batch, sorted by score
\* then matched skill count, both descending, and no qualifying volunteer
\* left out ranks strictly above a returned one.
C4_TopKContract ==
    /\ \A p \in Projects, b \in BatchIds :
       \A res \in get_top_candidates(volunteer_project_matches, skills_visible,
                                     candidate_notifications, p,
                                     TOP_K_CANDIDATES, MIN_MATCH_SCORE, b) :
          TopKContract(res, candidate_notifications, p, TOP_K_CANDIDATES,
                       MIN_MATCH_SCORE, b)
    /\ FreshCall =>
          TopKContract(candidates, candidate_notifications, 1,
                       TOP_K_CANDIDATES, MIN_MATCH_SCORE, batch_id)

\* A call that returned K candidates, one of them exactly at the threshold,
\* two of them with equal scores and different matched skill counts, and that
\* left a qualifying volunteer out
C4_Witness ==
    /\ FreshCall
    /\ Len(candidates) = TOP_K_CANDIDATES
    /\ \E i, j \in DOMAIN candidates :
          /\ i < j
          /\ candidates[i].match_score = candidates[j].match_score
          /\ Outranks(1, candidates[i].volunteer_id, candidates[j].volunteer_id)
    /\ \E i \in DOMAIN candidates : candidates[i].match_score = MIN_MATCH_SCORE
    /\ \E u \in Volunteers \ VolunteersOf(candidates) :
          Qualifies(candidate_notifications, 1, u, MIN_MATCH_SCORE, batch_id)

\* C5: the ledger holds at most one row for a triple (project, volunteer,
\* batch); record_notification for a triple already present leaves the ledger
\* as it is, whatever score it is given, and the row keeps the score it was
\* first written with.
C5_LedgerUniqueIdempotent ==
    /\ \A x, y \in candidate_notifications :
          ( /\ x.project_id = y.project_id
            /\ x.volunteer_id = y.volunteer_id
            /\ x.notification_batch_id = y.notification_batch_id ) => x = y
    /\ \A cn \in candidate_notifications :
          /\ cn.match_score =
                volunteer_project_matches[cn.project_id][cn.volunteer_id].match_score
          /\ \A score \in Thresholds :
                record_notification(candidate_notifications, cn.project_id,
                                    cn.volunteer_id, score,
                                    cn.notification_batch_id)
                = candidate_notifications

\* record_notification was called again for a recorded triple, and the
\* volunteer's row holds a score that differs from one a retry can pass
C5_Witness ==
    /\ retries > 0
    /\ \E cn \in candidate_notifications :
       \E score \in Thresholds : score # cn.match_score

-----------------------------------------------------------------------------
(* Properties of the notification job (Spec) *)

\* The committed candidate messages for (p, v) in batch b
CandidateMessages(p, v, b) ==
    { m \in BagToSet(project_messages) :
        /\ m.kind = "candidate"
        /\ m.project_id = p
        /\ m.recipient = v
        /\ m.batch = b }

\* C1: within one batch at most one candidate message is ever sent for a
\* (project, volunteer) pair, over any runs of process_project_notifications
\* that share the batch id, re-runs after a send or record failure included.
C1_AtMostOneMessagePerBatch ==
    \A p \in Projects, v \in Volunteers, b \in BatchIds :
        /\ Cardinality(CandidateMessages(p, v, b)) <= 1
        /\ \A m \in CandidateMessages(p, v, b) : CopiesIn(m, project_messages) <= 1

\* The project whose iteration has just committed, line 190
JustCommitted ==
    /\ pc \in {"select", "stats"}
    /\ candidates # <<>>
    /\ proj_idx > 1

LastProject == projects[proj_idx - 1].id

\* C6: a send or record failure for one candidate does not affect the others:
\* every selected candidate is attempted before the summary, the summary is
\* attempted, and a candidate whose own send and record succeeded ends the
\* project's processing with its message and its NotificationRecord committed
\* (the summary insert not having raised by itself).
C6_CandidateFailureIsolated ==
    /\ pc \in {"team_lead", "commit"} => cand_idx = Len(candidates) + 1
    /\ (JustCommitted /\ summary_error # "own") =>
          \A v \in notified :
             /\ CandidateMessages(LastProject, v, batch_id) # {}
             /\ Recorded(candidate_notifications, LastProject, v, batch_id)

\* C7: an unexpected error while processing one project (a failure of
\* get_top_candidates or of the per-project commit included) is isolated to
\* that project: the run goes through every project of the list and the job
\* does not terminate because of it.
C7_ProjectFailureIsolated ==
    (pc = "done" /\ runs > 0) =>
        /\ proj_idx = Len(projects) + 1
        /\ exit_status = 0

-----------------------------------------------------------------------------
(* calculate_matches.py.  Weights are held in tenths (5 = 0.5) and are       *)
(* multiples of 0.5, which a binary64 holds exactly, as it does their sums   *)
(* and the sums of their squares.  A cosine score is held as the operands    *)
(* of line 53: dot_product (tenths), the square of norm_v (hundredths) and   *)
(* the square of norm_p; cosine(score) is the binary64 line 53 computes      *)
(* from them.  A jaccard index is the pair (num, den) for num / den.         *)

-----------------------------------------------------------------------------
(* IEEE-754 binary64 arithmetic, the `float` of lines 45-53.  A natural     *)
(* number of any size is a sequence of base-10000 digits, least significant *)
(* first, without leading zeros (<<>> is 0).  A float is [m, e], standing   *)
(* for m * 2^e with 2^52 <= m < 2^53, or m = <<>> for 0.0; the values of    *)
(* the model are never negative, infinite or subnormal.  Every operation    *)
(* rounds to nearest, ties to even.                                         *)

RECURSIVE BigFromInt(_)
BigFromInt(n) ==
    IF n = 0 THEN <<>> ELSE <<n % 10000>> \o BigFromInt(n \div 10000)

RECURSIVE Trim(_)
Trim(a) ==
    IF a = <<>> THEN <<>>
    ELSE IF a[Len(a)] = 0 THEN Trim(SubSeq(a, 1, Len(a) - 1)) ELSE a

RECURSIVE BigAddC(_, _, _)
BigAddC(a, b, carry) ==
    IF a = <<>> /\ b = <<>> THEN (IF carry = 0 THEN <<>> ELSE <<carry>>)
    ELSE LET x == (IF a = <<>> THEN 0 ELSE Head(a))
                  + (IF b = <<>> THEN 0 ELSE Head(b)) + carry
         IN <<x % 10000>> \o BigAddC(IF a = <<>> THEN <<>> ELSE Tail(a),
                                     IF b = <<>> THEN <<>> ELSE Tail(b),
                                     x \div 10000)

BigAdd(a, b) == BigAddC(a, b, 0)

RECURSIVE BigSubB(_, _, _)
BigSubB(a, b, borrow) ==
    IF a = <<>> THEN <<>>
    ELSE LET x == Head(a) - (IF b = <<>> THEN 0 ELSE Head(b)) - borrow
         IN <<(x + 10000) % 10000>>
            \o BigSubB(Tail(a), IF b = <<>> THEN <<>> ELSE Tail(b),
                       IF x < 0 THEN 1 ELSE 0)

\* a - b, for a >= b
BigSub(a, b) == Trim(BigSubB(a, b, 0))

RECURSIVE BigLe(_, _)
BigLe(a, b) ==
    IF Len(a) # Len(b) THEN Len(a) < Len(b)
    ELSE IF a = <<>> THEN TRUE
    ELSE IF a[Len(a)] # b[Len(b)] THEN a[Len(a)] < b[Len(b)]
    ELSE BigLe(SubSeq(a, 1, Len(a) - 1), SubSeq(b, 1, Len(b) - 1))

RECURSIVE BigMulSmallC(_, _, _)
BigMulSmallC(a, k, carry) ==
    IF a = <<>> THEN (IF carry = 0 THEN <<>> ELSE <<carry>>)
    ELSE LET x == Head(a) * k + carry
         IN <<x % 10000>> \o BigMulSmallC(Tail(a), k, x \div 10000)

\* a * k, for 0 <= k < 10000
BigMulSmall(a, k) == Trim(BigMulSmallC(a, k, 0))

RECURSIVE BigMul(_, _)
BigMul(a, b) ==
    IF b = <<>> THEN <<>>
    ELSE LET rest == BigMul(a, Tail(b))
         IN BigAdd(BigMulSmall(a, Head(b)),
                   IF rest = <<>> THEN <<>> ELSE <<0>> \o rest)

RECURSIVE BigDivSmallR(_, _, _, _)
BigDivSmallR(a, i, d, rem) ==
    IF i = 0 THEN <<>>
    ELSE LET cur == rem * 10000 + a[i]
         IN BigDivSmallR(a, i - 1, d, cur % d) \o <<cur \div d>>

\* floor(a / d), for 0 < d < 10000
BigDivSmall(a, d) == Trim(BigDivSmallR(a, Len(a), d, 0))

RECURSIVE BigShl(_, _)
\* a * 2^k
BigShl(a, k) ==
    IF k >= 13 THEN BigShl(BigMulSmall(a, 8192), k - 13)
    ELSE BigMulSmall(a, 2 ^ k)

RECURSIVE DivDigit(_, _, _, _)
\* The largest i in lo..hi with d * i <= r (d * lo <= r is given)
DivDigit(d, r, lo, hi) ==
    IF lo = hi THEN lo
    ELSE LET mid == (lo + hi + 1) \div 2
         IN IF BigLe(BigMulSmall(d, mid), r)
            THEN DivDigit(d, r, mid, hi) ELSE DivDigit(d, r, lo, mid - 1)

RECURSIVE BigFloorDiv(_, _)
\* floor(n / d), for d > 0, one base-8192 digit of the quotient at a time
BigFloorDiv(n, d) ==
    IF n # d /\ BigLe(n, d) THEN <<>>
    ELSE LET q == BigMulSmall(BigFloorDiv(n, BigMulSmall(d, 8192)), 8192)
         IN BigAdd(q, BigFromInt(DivDigit(d, BigSub(n, BigMul(q, d)), 0, 8191)))

RECURSIVE SqrtDigit(_, _, _, _)
\* The largest i in lo..hi with (r + i)^2 <= n ((r + lo)^2 <= n is given)
SqrtDigit(r, n, lo, hi) ==
    IF lo = hi THEN lo
    ELSE LET mid == (lo + hi + 1) \div 2
             x == BigAdd(r, BigFromInt(mid))
         IN IF BigLe(BigMul(x, x), n)
            THEN SqrtDigit(r, n, mid, hi) ELSE SqrtDigit(r, n, lo, mid - 1)

RECURSIVE BigSqrt(_)
\* floor(sqrt(n)), one base-8192 digit of the root at a time
BigSqrt(n) ==
    IF n = <<>> THEN <<>>
    ELSE LET r == BigMulSmall(
                      BigSqrt(BigDivSmall(BigDivSmall(n, 8192), 8192)), 8192)
         IN BigAdd(r, BigFromInt(SqrtDigit(r, n, 0, 8191)))

\* n / d rounded to the nearest integer, ties to even
BigRoundDiv(n, d) ==
    LET q == BigFloorDiv(n, d)
        twice == BigMulSmall(BigSub(n, BigMul(q, d)), 2)
    IN IF twice = d
       THEN (IF q # <<>> /\ Head(q) % 2 = 1 THEN BigAdd(q, <<1>>) ELSE q)
       ELSE IF BigLe(d, twice) THEN BigAdd(q, <<1>>) ELSE q

\* The number of bits of the significand of a binary64
Precision == 53

TwoTo(k) == BigShl(<<1>>, k)

Float0 == [m |-> <<>>, e |-> 0]

\* A significand that rounding carried to 2^53 becomes 2^52
Normalize(m, e) ==
    IF m = TwoTo(Precision) THEN [m |-> TwoTo(Precision - 1), e |-> e + 1]
    ELSE [m |-> m, e |-> e]

RECURSIVE Log2(_)
Log2(n) == IF n <= 1 THEN 0 ELSE 1 + Log2(n \div 2)

\* The float n * 2^e0, for a natural number n below 2^31 (exact)
FloatOf(n, e0) ==
    IF n = 0 THEN Float0
    ELSE [m |-> BigShl(BigFromInt(n), Precision - 1 - Log2(n)),
          e |-> e0 - (Precision - 1 - Log2(n))]

\* sqrt(x), correctly rounded (np.linalg.norm, np.sqrt)
FloatSqrt(x) ==
    IF x.m = <<>> THEN Float0
    ELSE LET k == IF x.e % 2 = 0 THEN Precision - 1 ELSE Precision
             X == BigShl(x.m, k)
             F == BigSqrt(X)
             M == IF BigLe(BigAdd(F, <<1>>), BigSub(X, BigMul(F, F)))
                  THEN BigAdd(F, <<1>>) ELSE F
         IN Normalize(M, (x.e - k) \div 2)

\* x * y
FloatMul(x, y) ==
    IF x.m = <<>> \/ y.m = <<>> THEN Float0
    ELSE LET P == BigMul(x.m, y.m)
             k == IF BigLe(TwoTo(2 * Precision - 1), P)
                  THEN Precision ELSE Precision - 1
         IN Normalize(BigRoundDiv(P, TwoTo(k)), x.e + y.e + k)

\* x / y, for y > 0
FloatDiv(x, y) ==
    IF x.m = <<>> THEN Float0
    ELSE LET k == IF BigLe(y.m, x.m) THEN Precision - 1 ELSE Precision
         IN Normalize(BigRoundDiv(BigShl(x.m, k), y.m), x.e - y.e - k)

\* x <= 1.0
FloatLeOne(x) ==
    \/ x.m = <<>>
    \/ x.e < -(Precision - 1)
    \/ x.e = -(Precision - 1) /\ x.m = TwoTo(Precision - 1)

-----------------------------------------------------------------------------

Skills == {1, 2}
InitiativeIds == {1, 2}
SkilledVolunteers == {1, 2}

NoWeight == -1
Weights == {0, 5, 20}

\* The required-skill lists an initiative can have (array_agg of its rows of
\* initiative_required_skills; empty when it has no row)
RequiredSkillLists == { <<>>, <<1>>, <<2>>, <<1, 2>>, <<1, 1>> }

\* keys of a volunteer's skill dict
Keys(W) == { sid \in Skills : W[sid] # NoWeight }

RECURSIVE SumOver(_, _, _)
\* sum of f[W[s[i]]] over the list s, with f the identity or the square
SumOver(W, s, square) ==
    IF s = <<>> THEN 0
    ELSE (IF square THEN W[Head(s)] * W[Head(s)] ELSE W[Head(s)])
         + SumOver(W, Tail(s), square)

\* The score 0.0 of lines 42 and 53
ZeroScore == [dot_product |-> 0, norm_v2 |-> 0, norm_p2 |-> 0]

\* Line 53: dot_product / (norm_v * norm_p), with norm_v and norm_p the
\* square roots np.linalg.norm returns (lines 50-51)
cosine(score) ==
    IF score = ZeroScore THEN Float0
    ELSE FloatDiv(FloatOf(score.dot_product \div 5, -1),
                  FloatMul(FloatSqrt(FloatOf(score.norm_v2 \div 25, -2)),
                           FloatSqrt(FloatOf(score.norm_p2, 0))))

\* calculate_cosine_similarity, lines 27-55
calculate_cosine_similarity(W, R) ==
    LET matched_ids == SelectSeq(R, LAMBDA sid : W[sid] # NoWeight)
        dot_product == SumOver(W, matched_ids, FALSE)
        norm_v2 == SumOver(W, matched_ids, TRUE)
        norm_p2 == Len(matched_ids)
    IN IF matched_ids = <<>>
       THEN [score |-> ZeroScore, matched_ids |-> <<>>, matched_count |-> 0]
       ELSE [score |-> IF norm_v2 > 0 /\ norm_p2 > 0
                       THEN [dot_product |-> dot_product, norm_v2 |-> norm_v2,
                             norm_p2 |-> norm_p2]
                       ELSE ZeroScore,
             matched_ids |-> matched_ids,
             matched_count |-> Len(matched_ids)]

RECURSIVE SumSquaredDistance(_, _)
\* Line 76 squared: the sum over the list R of (W.get(sid, 0.0) - 1.0)^2, in
\* hundredths
SumSquaredDistance(W, R) ==
    IF R = <<>> THEN 0
    ELSE LET w == IF W[Head(R)] = NoWeight THEN 0 ELSE W[Head(R)]
         IN (w - 10) * (w - 10) + SumSquaredDistance(W, Tail(R))

\* calculate_euclidean_similarity, lines 57-82.  The result is the pair
\* (dist2, max2) that stands for 1.0 - sqrt(dist2 / max2), the normalized
\* distance after the min of line 80
calculate_euclidean_similarity(W, R) ==
    IF R = <<>> THEN [dist2 |-> 1, max2 |-> 1]
    ELSE LET euclidean_dist2 == SumSquaredDistance(W, R)
             max_possible_dist2 == Len(R) * 100
         IN [dist2 |-> IF euclidean_dist2 <= max_possible_dist2
                       THEN euclidean_dist2 ELSE max_possible_dist2,
             max2 |-> max_possible_dist2]

RECURSIVE TotalWeight(_, _)
\* Line 98: sum(volunteer_weights.get(sid, 0.0) for sid in project_skill_ids)
TotalWeight(W, R) ==
    IF R = <<>> THEN 0
    ELSE (IF W[Head(R)] = NoWeight THEN 0 ELSE W[Head(R)]) + TotalWeight(W, Tail(R))

\* calculate_coverage_score, lines 84-99.  The result is the pair (num, den)
\* that stands for num / den (num in tenths, den = 10 * len)
calculate_coverage_score(W, R) ==
    IF R = <<>> THEN [num |-> 0, den |-> 1]
    ELSE [num |-> TotalWeight(W, R), den |-> 10 * Len(R)]

\* array_agg(irs.skill_id), line 109: the aggregate has no ORDER BY, so the
\* rows of initiative_required_skills come in any order
array_agg(R) ==
    { s \in [1..Len(R) -> Skills] :
        \A sid \in Skills :
            Cardinality({ k \in 1..Len(R) : s[k] = sid })
                = Cardinality({ k \in 1..Len(R) : R[k] = sid }) }

\* The rows cursor.fetchall() can return at line 115, for the initiatives
\* table inits: every initiative with its aggregated required skills
Fetched(inits) ==
    { f \in [DOMAIN inits -> UNION { array_agg(inits[i].required_skills) :
                                       i \in DOMAIN inits }] :
        \A i \in DOMAIN inits : f[i] \in array_agg(inits[i].required_skills) }

\* The query of lines 108-115: active initiatives joined with their required
\* skills (an initiative without required skills has no row in the join)
FetchInitiatives(inits) ==
    { i \in DOMAIN inits :
        inits[i].status = "active" /\ inits[i].required_skills # <<>> }

\* Lines 119-131: the dict volunteer_skills holds the volunteers that have a
\* row in the join with volunteer_skills
FetchVolunteers(vskills) ==
    { v \in DOMAIN vskills : Keys(vskills[v]) # {} }

\* One tuple of the list `matches`, lines 154-157 (without calculated_at)
MatchTuple(i, v, R, c) ==
    [volunteer_id |-> v, initiative_id |-> i, match_score |-> c.score,
     jaccard_index |-> [num |-> c.matched_count, den |-> Len(R)],
     matched_skill_ids |-> c.matched_ids,
     matched_skill_count |-> c.matched_count]

\* The loop of lines 140-157 with the test of line 147 left out
ComputeMatches_StoreAll(inits, vskills) ==
    { MatchTuple(i, v, inits[i].required_skills,
                 calculate_cosine_similarity(vskills[v], inits[i].required_skills)) :
        i \in FetchInitiatives(inits), v \in FetchVolunteers(vskills) }

\* The loop of lines 140-157
ComputeMatches(inits, vskills) ==
    { MatchTuple(i[1], i[2], inits[i[1]].required_skills,
                 calculate_cosine_similarity(vskills[i[2]],
                                             inits[i[1]].required_skills)) :
        i \in { pr \in FetchInitiatives(inits) \X FetchVolunteers(vskills) :
                  calculate_cosine_similarity(vskills[pr[2]],
                      inits[pr[1]].required_skills).matched_count > 0 } }

\* A row left in the table by an earlier run, on earlier data
StaleRow ==
    [volunteer_id |-> 1, initiative_id |-> 1,
     match_score |-> [dot_product |-> 5, norm_v2 |-> 25, norm_p2 |-> 1],
     jaccard_index |-> [num |-> 1, den |-> 2],
     matched_skill_ids |-> <<2>>, matched_skill_count |-> 1]

NotifyIdle ==
    /\ volunteer_project_matches = [p \in Projects |-> Project3Matches]
    /\ skills_visible = [v \in Volunteers |-> TRUE]
    /\ TOP_K_CANDIDATES = JobTopK
    /\ MIN_MATCH_SCORE = DefaultMinScore
    /\ calls = <<>>
    /\ retries = 0
    /\ candidate_notifications = {}
    /\ project_messages = EmptyBag
    /\ tx_notifications = {}
    /\ tx_messages = EmptyBag
    /\ tx_aborted = FALSE
    /\ pc = "idle"
    /\ batch_id = 0
    /\ used_batches = {}
    /\ projects = <<>>
    /\ proj_idx = 1
    /\ candidates = <<>>
    /\ cand_idx = 1
    /\ notified = {}
    /\ summary_error = "none"
    /\ exit_status = -1

\* The tables the recompute job reads and writes, and its control state,
\* before main is called
RcTables ==
    \* initiative 1 is active with any required-skill list; initiative 2
    \* requires skill 2 and is active or not
    /\ \E R \in RequiredSkillLists, st \in {"active", "draft"} :
          initiatives = [i \in InitiativeIds |->
                            IF i = 1 THEN [status |-> "active", required_skills |-> R]
                            ELSE [status |-> st, required_skills |-> <<2>>]]
    \* volunteer 1 has any skill dict; volunteer 2 has no skill or skill 2
    /\ \E W \in [Skills -> Weights \cup {NoWeight}], w2 \in {NoWeight, 5} :
          volunteer_skills = [v \in SkilledVolunteers |->
                                 IF v = 1 THEN W
                                 ELSE [sid \in Skills |-> IF sid = 2 THEN w2 ELSE NoWeight]]
    /\ volunteer_initiative_matches \in {EmptyBag, SetToBag({StaleRow})}
    /\ rc_matches = {}
    /\ rc_table = EmptyBag
    /\ rc_pc = "idle"
    /\ rc_success = FALSE
    /\ rc_commits = 0
    /\ rc_failed_at = "none"
    /\ rc_exit = -1
    /\ SimilarityIdle

RcInit ==
    /\ NotifyIdle
    /\ runs = 0
    /\ failures = 0
    /\ RcTables

RcData == <<initiatives, volunteer_skills, volunteer_weights,
            project_skill_ids, similarity>>

\* An exception reaches main: lines 230-235, sys.exit(1) and conn.close(),
\* which discards the open transaction
RcFatal ==
    /\ rc_pc' = "done"
    /\ rc_exit' = 1
    /\ rc_failed_at' = rc_pc
    /\ rc_table' = EmptyBag
    /\ rc_matches' = {}

\* main, lines 212-223, and recalculate_all_matches up to line 163
RcCompute ==
    /\ rc_pc \in {"idle", "done"}
    /\ runs < MaxRuns
    /\ runs' = runs + 1
    /\ \E f \in Fetched(initiatives) :
          rc_matches' = ComputeMatches(
                            [i \in DOMAIN initiatives |->
                                [status |-> initiatives[i].status,
                                 required_skills |-> f[i]]],
                            volunteer_skills)
    /\ rc_table' = volunteer_initiative_matches
    /\ rc_pc' = "truncate"
    /\ rc_success' = FALSE
    /\ rc_failed_at' = "none"
    /\ rc_exit' = -1
    /\ UNCHANGED <<nvars_but_counters, failures, RcData,
                   volunteer_initiative_matches, rc_commits>>

\* Line 167 left out: the new rows are added to the old ones
RcTruncate_Skip ==
    /\ rc_pc = "truncate"
    /\ rc_pc' = "insert"
    /\ UNCHANGED <<nvars, RcData, volunteer_initiative_matches, rc_matches,
                   rc_table, rc_success, rc_commits, rc_failed_at, rc_exit>>

\* Line 167 on a connection in autocommit mode: the clear is committed at once
RcTruncate_Autocommit ==
    /\ rc_pc = "truncate"
    /\ rc_table' = EmptyBag
    /\ volunteer_initiative_matches' = EmptyBag
    /\ rc_pc' = "insert"
    /\ UNCHANGED <<nvars, RcData, rc_matches, rc_success, rc_commits,
                   rc_failed_at, rc_exit>>

\* Line 167: TRUNCATE volunteer_initiative_matches
RcTruncate ==
    /\ rc_pc = "truncate"
    /\ rc_table' = EmptyBag
    /\ rc_pc' = "insert"
    /\ UNCHANGED <<nvars, RcData, volunteer_initiative_matches, rc_matches,
                   rc_success, rc_commits, rc_failed_at, rc_exit>>

\* Lines 170-175: executemany INSERT
RcInsert ==
    /\ rc_pc = "insert"
    /\ rc_table' = rc_table (+) SetToBag(rc_matches)
    /\ rc_pc' = "commit"
    /\ UNCHANGED <<nvars, RcData, volunteer_initiative_matches, rc_matches,
                   rc_success, rc_commits, rc_failed_at, rc_exit>>

\* Line 177: conn.commit(), and recalculate_all_matches returns
RcCommit ==
    /\ rc_pc = "commit"
    /\ volunteer_initiative_matches' = rc_table
    /\ rc_table' = EmptyBag
    /\ rc_matches' = {}
    /\ rc_pc' = "stats"
    /\ rc_success' = TRUE
    /\ rc_commits' = rc_commits + 1
    /\ UNCHANGED <<nvars, RcData, rc_failed_at, rc_exit>>

\* Line 167, 170 or 177 raises
RcFails ==
    /\ rc_pc \in {"truncate", "insert", "commit"}
    /\ failures < MaxFailures
    /\ failures' = failures + 1
    /\ RcFatal
    /\ UNCHANGED <<nvars_but_counters, runs, RcData,
                   volunteer_initiative_matches, rc_success, rc_commits>>

\* get_match_statistics, lines 180-210, returns: the aggregates of lines
\* 195-203 are numbers (the table has rows); then lines 228, 233-235
RcStatistics ==
    /\ rc_pc = "stats"
    /\ volunteer_initiative_matches # EmptyBag
    /\ rc_pc' = "done"
    /\ rc_exit' = 0
    /\ UNCHANGED <<nvars, RcData, volunteer_initiative_matches, rc_matches,
                   rc_table, rc_success, rc_commits, rc_failed_at>>

\* get_match_statistics raises: a query fails, or the table is empty, AVG,
\* MIN and MAX are NULL and the format of lines 209-210 raises TypeError.
\* Line 226 is inside the try of main: lines 230-235
RcStatisticsFails ==
    /\ rc_pc = "stats"
    /\ \/ /\ volunteer_initiative_matches = EmptyBag
          /\ UNCHANGED failures
       \/ /\ volunteer_initiative_matches # EmptyBag
          /\ failures < MaxFailures
          /\ failures' = failures + 1
    /\ RcFatal
    /\ UNCHANGED <<nvars_but_counters, runs, RcData,
                   volunteer_initiative_matches, rc_success, rc_commits>>

RcNext ==
    \/ RcCompute
    \/ RcTruncate
    \/ RcInsert
    \/ RcCommit
    \/ RcFails
    \/ RcStatistics
    \/ RcStatisticsFails

SpecRecompute == RcInit /\ [][RcNext]_vars

-----------------------------------------------------------------------------
(* The similarity functions called on their own, lines 27-99 *)

SimSkills == {1, 2, 3}
SimSkillLists == { <<>>, <<1>>, <<1, 2>>, <<1, 2, 3>>, <<1, 1>>, <<3, 2>> }

SimInit ==
    /\ NotifyIdle
    /\ runs = 0
    /\ failures = 0
    /\ initiatives = <<>>
    /\ volunteer_skills = <<>>
    /\ volunteer_initiative_matches = EmptyBag
    /\ rc_matches = {}
    /\ rc_table = EmptyBag
    /\ rc_pc = "idle"
    /\ rc_success = FALSE
    /\ rc_commits = 0
    /\ rc_failed_at = "none"
    /\ rc_exit = -1
    /\ volunteer_weights \in [SimSkills -> Weights \cup {NoWeight}]
    /\ project_skill_ids \in SimSkillLists
    /\ similarity = [function |-> "none"]

SimFrame == <<nvars, initiatives, volunteer_skills, volunteer_initiative_matches,
              rc_matches, rc_table, rc_pc, rc_success, rc_commits,
              rc_failed_at, rc_exit, volunteer_weights, project_skill_ids>>

CallCosine ==
    /\ similarity.function = "none"
    /\ LET r == calculate_cosine_similarity(volunteer_weights, project_skill_ids)
       IN similarity' = [function |-> "cosine", result |-> r,
                         value |-> cosine(r.score)]
    /\ UNCHANGED SimFrame

CallEuclidean ==
    /\ similarity.function = "none"
    /\ similarity' = [function |-> "euclidean",
                      result |-> calculate_euclidean_similarity(
                                     volunteer_weights, project_skill_ids)]
    /\ UNCHANGED SimFrame

CallCoverage ==
    /\ similarity.function = "none"
    /\ similarity' = [function |-> "coverage",
                      result |-> calculate_coverage_score(
                                     volunteer_weights, project_skill_ids)]
    /\ UNCHANGED SimFrame

SimNext ==
    \/ CallCosine
    \/ CallEuclidean
    \/ CallCoverage

SpecSimilarity == SimInit /\ [][SimNext]_vars

-----------------------------------------------------------------------------
(* The two jobs on one database: calculate_matches.main is scheduled on its  *)
(* own and get_top_candidates is called for project 1 at any time.  The      *)
(* notification job reads volunteer_project_matches (lines 62-65 of          *)
(* notify_project_matches.py); the recompute job writes                      *)
(* volunteer_initiative_matches (lines 167-175 of calculate_matches.py).     *)

PipelineInit ==
    /\ \E row \in {NoRow, [match_score |-> 900, matched_skill_count |-> 2]} :
          volunteer_project_matches =
             [p \in Projects |->
                 IF p = 1 THEN [v \in Volunteers |-> IF v = 1 THEN row
                                                     ELSE Project2Matches[v]]
                 ELSE IF p = 2 THEN Project2Matches
                 ELSE Project3Matches]
    /\ skills_visible = [v \in Volunteers |-> TRUE]
    /\ TOP_K_CANDIDATES = JobTopK
    /\ MIN_MATCH_SCORE = DefaultMinScore
    /\ candidate_notifications = {}
    /\ project_messages = EmptyBag
    /\ tx_notifications = {}
    /\ tx_messages = EmptyBag
    /\ tx_aborted = FALSE
    /\ calls = <<>>
    /\ retries = 0
    /\ pc = "sel_idle"
    /\ batch_id = 0
    /\ used_batches = {}
    /\ projects = <<>>
    /\ proj_idx = 1
    /\ candidates = <<>>
    /\ cand_idx = 1
    /\ notified = {}
    /\ summary_error = "none"
    /\ exit_status = -1
    /\ runs = 0
    /\ failures = 0
    /\ RcTables

PipelineNext ==
    \/ RcNext
    \/ SelCall
    \/ SelRecord

SpecPipeline == PipelineInit /\ [][PipelineNext]_vars

-----------------------------------------------------------------------------
(* Properties of the recompute job (SpecRecompute) *)

\* C8: a failure while computing the post-run statistics is non-fatal in both
\* jobs: once the main work has committed, the job ends with exit status 0
\* whether or not the statistics could be computed (an empty match table
\* included).
C8_StatisticsFailureNonFatal ==
    /\ (rc_pc = "done" /\ rc_success) => rc_exit = 0
    /\ (pc = "done" /\ runs > 0 /\ proj_idx = Len(projects) + 1) => exit_status = 0

\* The rows of the committed match table for the pair (i, v)
RowsOf(i, v) ==
    { r \in BagToSet(volunteer_initiative_matches) :
        r.initiative_id = i /\ r.volunteer_id = v }

\* Some required skill of initiative i is a key of volunteer v's skill dict
Overlap(i, v) ==
    \E k \in DOMAIN initiatives[i].required_skills :
        volunteer_skills[v][initiatives[i].required_skills[k]] # NoWeight

\* C9: after a successful run of recalculate_all_matches the match table
\* holds a record for a pair exactly when the initiative is active, the
\* volunteer has skills and a required skill is a key of the volunteer's
\* skill dict; zero-overlap pairs and the pairs of an initiative without
\* required skills have none.
C9_RecordIffOverlap ==
    rc_commits > 0 =>
        /\ \A r \in BagToSet(volunteer_initiative_matches) :
              r.initiative_id \in InitiativeIds /\ r.volunteer_id \in SkilledVolunteers
        /\ \A i \in InitiativeIds, v \in SkilledVolunteers :
              RowsOf(i, v) # {}
                 <=> ( /\ initiatives[i].status = "active"
                       /\ \E sid \in Skills : volunteer_skills[v][sid] # NoWeight
                       /\ Overlap(i, v) )

\* A committed table with a record, next to an active initiative without
\* required skills and a zero-overlap pair of an active initiative and a
\* volunteer with skills
C9_Witness ==
    /\ rc_commits > 0
    /\ volunteer_initiative_matches # EmptyBag
    /\ \E i \in InitiativeIds :
          initiatives[i].status = "active" /\ initiatives[i].required_skills = <<>>
    /\ \E i \in InitiativeIds, v \in SkilledVolunteers :
          /\ initiatives[i].status = "active"
          /\ initiatives[i].required_skills # <<>>
          /\ \E sid \in Skills : volunteer_skills[v][sid] # NoWeight
          /\ ~ Overlap(i, v)

\* C10: for every record produced by recalculate_all_matches,
\* matched_skill_count = |matched_skill_ids| = the number of distinct skill
\* ids that are both required and keys of the volunteer's skill dict, also
\* when the required-skill list repeats a skill id.
C10_MatchedCountIsIntersection ==
    \A r \in rc_matches :
        LET R == initiatives[r.initiative_id].required_skills
            W == volunteer_skills[r.volunteer_id]
        IN /\ r.matched_skill_count = Len(r.matched_skill_ids)
           /\ r.matched_skill_count =
                 Cardinality({ sid \in Skills :
                                 /\ \E k \in DOMAIN R : R[k] = sid
                                 /\ W[sid] # NoWeight })

\* The step of line 177 that ends a run of recalculate_all_matches
IsRcCommit == rc_pc = "commit" /\ rc_pc' = "stats"

\* A row with matched_skill_ids taken as the set of its elements (the
\* MatchRecord of the data model; calculated_at is left out)
AsRecord(r) ==
    [volunteer_id |-> r.volunteer_id, initiative_id |-> r.initiative_id,
     match_score |-> r.match_score, jaccard_index |-> r.jaccard_index,
     matched_skill_ids |->
        { r.matched_skill_ids[k] : k \in DOMAIN r.matched_skill_ids },
     matched_skill_count |-> r.matched_skill_count]

Records(table) == { AsRecord(r) : r \in BagToSet(table) }

\* No row twice, and no pair with two records
NoDuplicates(table) ==
    /\ \A r \in BagToSet(table) : CopiesIn(r, table) = 1
    /\ \A r1, r2 \in BagToSet(table) :
          (r1.volunteer_id = r2.volunteer_id /\ r1.initiative_id = r2.initiative_id)
             => AsRecord(r1) = AsRecord(r2)

C12_ReplaceAllOrNothing ==
    [][ /\ volunteer_initiative_matches' # volunteer_initiative_matches
           => /\ IsRcCommit
              /\ volunteer_initiative_matches' = SetToBag(rc_matches)
        /\ rc_failed_at' \in {"truncate", "insert", "commit"}
           => /\ rc_exit' = 1
              /\ ~ rc_success'
              /\ volunteer_initiative_matches' = volunteer_initiative_matches ]_vars

\* A run has failed at the bulk insert, after the clear, and the committed
\* table still holds the row it held before the run
C12_Witness ==
    /\ rc_pc = "done"
    /\ rc_failed_at = "insert"
    /\ rc_commits = 0
    /\ volunteer_initiative_matches = SetToBag({StaleRow})

-----------------------------------------------------------------------------
(* Properties of the notification job, continued (Spec) *)

\* The summary messages among msgs
Summaries(msgs) == { m \in BagToSet(msgs) : m.kind = "summary" }

\* C13: each project's notification work is one transaction and earlier
\* projects are never undone: the committed ledger and messages change only
\* at the commit that ends a project's iteration, where all the pending
\* writes, which are of that project alone, are added together; committed
\* rows are never removed, whatever fails later.
C13_ProjectCommitsTogether ==
    [][ /\ \A m \in BagToSet(tx_messages') :
              m.project_id = projects'[proj_idx'].id /\ m.batch = batch_id'
        /\ \A cn \in tx_notifications' :
              cn.project_id = projects'[proj_idx'].id
        /\ candidate_notifications \subseteq candidate_notifications'
        /\ project_messages \sqsubseteq project_messages'
        /\ (\/ candidate_notifications' # candidate_notifications
            \/ project_messages' # project_messages)
           => /\ pc = "commit"
              /\ proj_idx' = proj_idx + 1
              /\ candidate_notifications'
                    = candidate_notifications \cup tx_notifications
              /\ project_messages' = project_messages (+) tx_messages ]_vars

\* The job has ended with exit status 1 while processing the second project,
\* and the first project's candidate message, record and summary are there
C13_Witness ==
    /\ pc = "done"
    /\ exit_status = 1
    /\ proj_idx = 2
    /\ \E v \in Volunteers :
          /\ CandidateMessages(projects[1].id, v, batch_id) # {}
          /\ Recorded(candidate_notifications, projects[1].id, v, batch_id)
    /\ \E m \in Summaries(project_messages) : m.project_id = projects[1].id

\* C14: for a project with at least one candidate exactly one summary is
\* sent, after all its candidates have been attempted, to the team lead or,
\* without a team lead, to the creating administrator (the summary insert
\* not having raised by itself); a project without candidates gets no
\* summary and no candidate message.
C14_OneSummaryAfterCandidates ==
    /\ pc = "candidate" => Summaries(tx_messages) = {}
    /\ (pc = "commit" /\ summary_error # "own") =>
          /\ Cardinality(Summaries(tx_messages)) = 1
          /\ \A m \in Summaries(tx_messages) :
                /\ CopiesIn(m, tx_messages) = 1
                /\ m.project_id = CurrentProject.id
                /\ m.recipient = IF CurrentProject.team_lead_id # 0
                                 THEN CurrentProject.team_lead_id
                                 ELSE CurrentProject.created_by_admin_id
                /\ Len(m.body) = Len(candidates)
    /\ pc \in {"select", "stats"} => tx_messages = EmptyBag

\* C17: the integer percentage of a candidate message and of each line of a
\* summary is round(match_score * 100): the integer nearest to the score
\* times 100 (scores are in thousandths).
C17_PercentageIsRounded ==
    \A m \in BagToSet(project_messages) :
        \A k \in DOMAIN m.body :
            LET score == volunteer_project_matches[m.project_id]
                                                  [m.body[k].volunteer_id].match_score
                diff == score * 100 - m.body[k].pct * 1000
            IN 2 * (IF diff < 0 THEN -diff ELSE diff) <= 1000

\* C19: messages and ledger stay paired: every committed candidate message
\* has a committed NotificationRecord for its (project, volunteer, batch) and
\* every committed NotificationRecord has a committed candidate message.
C19_MessagesAndLedgerPaired ==
    /\ \A m \in BagToSet(project_messages) :
          m.kind = "candidate"
             => Recorded(candidate_notifications, m.project_id, m.recipient, m.batch)
    /\ \A cn \in candidate_notifications :
          CandidateMessages(cn.project_id, cn.volunteer_id,
                            cn.notification_batch_id) # {}

\* C18: candidate selection consumes what recompute produces: once a run of
\* recalculate_all_matches has committed, every candidate get_top_candidates
\* returns for a project has a record of that project and volunteer in the
\* table the recompute wrote, so a pair without a record is never selected.
C18_SelectionReadsRecomputedTable ==
    [][ (Len(calls') = Len(calls) + 1 /\ rc_commits >= 1)
           => \A k \in DOMAIN calls'[Len(calls')].result :
                 RowsOf(1, calls'[Len(calls')].result[k].volunteer_id) # {} ]_vars

-----------------------------------------------------------------------------
(* Properties of the similarity functions (SpecSimilarity) *)

\* C15: for weights >= 0 calculate_cosine_similarity returns a score in
\* [0, 1], and the score 0 with an empty matched list and the count 0 when no
\* element of R is a key of W.
C15_CosineInUnitInterval ==
    similarity.function = "cosine" =>
        /\ FloatLeOne(similarity.value)
        /\ (\A k \in DOMAIN project_skill_ids :
                volunteer_weights[project_skill_ids[k]] = NoWeight)
              => /\ similarity.value = Float0
                 /\ similarity.result.matched_ids = <<>>
                 /\ similarity.result.matched_count = 0

\* C16: for weights >= 0, however large, calculate_coverage_score and
\* calculate_euclidean_similarity return a value in [0, 1], and 0 when R is
\* empty.
C16_CoverageAndEuclideanInUnitInterval ==
    /\ similarity.function = "euclidean" =>
          /\ 0 <= similarity.result.dist2
          /\ similarity.result.dist2 <= similarity.result.max2
          /\ project_skill_ids = <<>>
                => similarity.result.dist2 = similarity.result.max2
    /\ similarity.function = "coverage" =>
          /\ 0 <= similarity.result.num
          /\ similarity.result.num <= similarity.result.den
          /\ project_skill_ids = <<>> => similarity.result.num = 0

====
